---- MODULE Spec2Model ----
(***************************************************************************)
(* Lead allocation and deduplication of the lead-generation agency:        *)
(* LeadProcessor (services/lead_processor.py), DeduplicationService        *)
(* (deduplication.py), SchedulerService (services/scheduler.py), the       *)
(* /process_delivery and /upload_leads routes (app.py) and the             *)
(* delivered_leads table of DatabaseManager (database.py).                 *)
(*                                                                         *)
(* Time is counted in whole days.  Two LeadProcessor objects exist, the    *)
(* one of the web application ("app") and the one owned by the scheduler   *)
(* ("sched"); each owns a DeduplicationService whose dictionaries are      *)
(* loaded once, at construction, and written back whole on every save.     *)
(***************************************************************************)
EXTENDS Integers, Sequences, FiniteSets, TLC

\* ------------------------------------------------------------------ bounds
MaxCalls == 2
MaxTicks == 2
MaxUploads == 1
MaxPoolUploads == 2
MaxCleanTicks == 3
MaxStarts == 2
MaxJobs == 3

\* ------------------------------------------------------- program constants
DEDUPLICATION_WINDOW_DAYS == 30
CLEANUP_WINDOW_FACTOR == 2
EXCLUSIVE_RETENTION_DAYS == 90

\* ------------------------------------------------------------------ inputs
Emails == {"a@x.com", "b@x.com", "c@x.com"}

\* What the record operations of the two dedup indexes are called with.
RecordEmails == {"a@x.com", "A@x.com"}
Companies == {"acme", "Acme"}

\* One address recorded for two different companies.
TableEmails == {"a@x.com"}
TableCompanies == {"acme", "globex"}

\* One row of a processed_leads_*.json file.  valid = FALSE is a row whose
\* first_name is not a string and that has no linkedin value: building its
\* LinkedIn URL raises inside the per-lead try block.
LeadRow(e, v) == [email |-> e, valid |-> v]

UploadFiles ==
    { << LeadRow("a@x.com", TRUE) >>,
      << LeadRow("a@x.com", TRUE), LeadRow("b@x.com", TRUE), LeadRow("c@x.com", TRUE) >>,
      << LeadRow("a@x.com", TRUE), LeadRow("b@x.com", FALSE), LeadRow("a@x.com", TRUE) >> }

\* The uploads of the pool specification: the files above, one whose two rows
\* carry the same address in different letter case, and one that shares no
\* address with the first.
PoolFiles ==
    UploadFiles \cup { << LeadRow("a@x.com", TRUE), LeadRow("A@x.com", TRUE) >>,
                       << LeadRow("b@x.com", TRUE), LeadRow("c@x.com", TRUE) >> }

\* The clients, as add_client stores them (remaining_quota = lead_count).
Clients == {"E", "F"}
ClientOrder == << "E", "F" >>

\* A clients.json to which the basic client was added before the pro client.
RunOrder == << "F", "E" >>

\* The priorities of Config.PLAN_CONFIGURATIONS (1 is served first).
PlanPriority == [premium |-> 1, pro |-> 2, basic |-> 3]
ClientTable ==
    [c \in Clients |->
        IF c = "E"
        THEN [name |-> "E", plan |-> "pro", exclusive |-> TRUE, lead_count |-> 2, active |-> TRUE]
        ELSE [name |-> "F", plan |-> "basic", exclusive |-> FALSE, lead_count |-> 2, active |-> TRUE]]
\* The plans of Config.PLAN_CONFIGURATIONS
Plans == {"basic", "pro", "premium"}
InitialQuota == [c \in Clients |-> ClientTable[c].lead_count]

Instances == {"app", "sched"}
ReqThreads == {"req1", "req2"}
Threads == ReqThreads \cup {"sched"}
TickSteps == {1, DEDUPLICATION_WINDOW_DAYS}

VARIABLES
    now,              \* datetime.now(), in days
    ticks,            \* number of clock advances so far
    uploads,          \* number of uploads so far
    calls,            \* number of delivery runs started so far
    pool,             \* the rows of all data/processed_leads_*.json files, in
                      \* the order os.listdir yields the files
    mem_delivered,    \* DeduplicationService.delivered_leads, per instance
    mem_exclusive,    \* DeduplicationService.exclusive_leads, per instance
    file_delivered,   \* data/delivered_leads.json
    file_exclusive,   \* data/exclusive_leads.json
    db_quota,         \* clients.remaining_quota in the database
    file_quota,       \* remaining_quota in data/clients.json
    db_delivered,     \* the delivered_leads table of the database
    th,               \* the threads: where each is in its delivery run
    log,              \* the deliveries returned so far, in order
    is_running,       \* SchedulerService.is_running
    loops,            \* the threads created by start(), each in _run_scheduler
    jobs              \* schedule.jobs, the registered jobs in order

delivery_vars == << now, ticks, uploads, calls, pool, mem_delivered, mem_exclusive,
                    file_delivered, file_exclusive, db_quota, file_quota,
                    db_delivered, th, log >>

sched_vars == << is_running, loops, jobs >>

vars == << now, ticks, uploads, calls, pool, mem_delivered, mem_exclusive,
           file_delivered, file_exclusive, db_quota, file_quota, db_delivered,
           th, log, is_running, loops, jobs >>

\* ----------------------------------------------------------------- helpers
Min(a, b) == IF a < b THEN a ELSE b
Max(a, b) == IF a > b THEN a ELSE b
Range(s) == { s[i] : i \in 1..Len(s) }
EmptyDict == [e \in {} |-> 0]
EmailsOf(rows) == [i \in 1..Len(rows) |-> rows[i].email]

\* Python's s[:n]
PySlice(s, n) ==
    IF n >= 0 THEN SubSeq(s, 1, Min(n, Len(s)))
    ELSE SubSeq(s, 1, Max(0, Len(s) + n))

\* ---------------------------------------------------- DeduplicationService
is_lead_delivered(delivered, email, t) ==
    /\ email \in DOMAIN delivered
    /\ delivered[email] > t - DEDUPLICATION_WINDOW_DAYS

is_lead_exclusive_delivered(exclusive, email) == email \in DOMAIN exclusive

\* A marking that records nothing.
DictMark_nothing(d, emails, t) == d

\* The dictionary after `for email in emails: d[email] = current_time`.
DictMark(d, emails, t) ==
    [e \in DOMAIN d \cup Range(emails) |-> IF e \in Range(emails) THEN t ELSE d[e]]

\* mark_leads_as_delivered(emails, exclusive) at time t on the dictionaries
\* delivered_leads and exclusive_leads: the two dictionaries afterwards.
mark_leads_as_delivered(delivered, exclusive_leads, emails, exclusive, t) ==
    << DictMark(delivered, emails, t),
       IF exclusive THEN DictMark(exclusive_leads, emails, t) ELSE exclusive_leads >>

\* drop_duplicates(subset=['email'], keep='first')
RECURSIVE DropDuplicates(_, _)
DropDuplicates(rows, seen) ==
    IF rows = << >> THEN << >>
    ELSE IF Head(rows).email \in seen THEN DropDuplicates(Tail(rows), seen)
    ELSE << Head(rows) >> \o DropDuplicates(Tail(rows), seen \cup {Head(rows).email})

remove_duplicates(rows, delivered, t) ==
    LET recent == { e \in DOMAIN delivered : delivered[e] > t - DEDUPLICATION_WINDOW_DAYS }
        keep(r) == r.email \notin recent
    IN  SelectSeq(DropDuplicates(rows, {}), keep)

\* The rows process_uploaded_leads stores for the n-th upload: processed_at,
\* the time of the upload, is kept as the upload's ordinal.
StoredRows(rows, n) ==
    [k \in 1..Len(rows) |->
        [email |-> rows[k].email, valid |-> rows[k].valid, processed_at |-> n]]

\* A cleaning that also keeps the entries dated exactly at the cutoff.
KeepNewer_inclusive(d, t, days) ==
    LET kept == { e \in DOMAIN d : d[e] >= t - days } IN [e \in kept |-> d[e]]

\* A cleaning whose cutoff is one day, whatever the retention asked for.
KeepNewer_one_day(d, t, days) ==
    LET kept == { e \in DOMAIN d : d[e] > t - 1 } IN [e \in kept |-> d[e]]

\* The dictionary clean_old_records keeps with a cutoff of `days` days.
KeepNewer(d, t, days) ==
    LET kept == { e \in DOMAIN d : d[e] > t - days } IN [e \in kept |-> d[e]]

\* str.lower() on the strings of the model
Lower(str) ==
    CASE str = "A@x.com" -> "a@x.com"
      [] str = "Acme" -> "acme"
      [] str = "E" -> "e"
      [] str = "F" -> "f"
      [] OTHER -> str

\* get_lead_fingerprint: the MD5 digest of "<email.lower()>_<company.lower()>",
\* kept as the digested string's two parts (digests of different strings
\* differ).
get_lead_fingerprint(email, company) == << Lower(email), Lower(company) >>

\* --------------------------------------------------------- DatabaseManager
DbRow(email, fingerprint, exclusive, t) ==
    [email |-> email, fingerprint |-> fingerprint, exclusive |-> exclusive,
     delivered_at |-> t]

HasKey(table, email, fingerprint) ==
    \E row \in table : row.email = email /\ row.fingerprint = fingerprint

\* The table after an upsert that overwrites the row of a duplicate key
\* (ON CONFLICT ... DO UPDATE).
mark_lead_delivered_overwrite(table, email, fingerprint, exclusive, t) ==
    { row \in table : ~ (row.email = email /\ row.fingerprint = fingerprint) }
        \cup { DbRow(email, fingerprint, exclusive, t) }

\* mark_lead_delivered: INSERT INTO delivered_leads (email, fingerprint,
\* exclusive) ... ON CONFLICT (email, fingerprint) DO NOTHING, delivered_at
\* defaulting to CURRENT_TIMESTAMP = t.
mark_lead_delivered(table, email, fingerprint, exclusive, t) ==
    IF HasKey(table, email, fingerprint) THEN table
    ELSE table \cup { DbRow(email, fingerprint, exclusive, t) }

\* ----------------------------------------------------------- LeadProcessor
\* A selection in which a client below the first priority does not see the
\* first available lead ("premium gets first pick").
available_leads_first_pick(i, client) ==
    LET ok(r) ==
            /\ ~ is_lead_delivered(mem_delivered[i], r.email, now)
            /\ (client.exclusive
                    => ~ is_lead_exclusive_delivered(mem_exclusive[i], r.email))
        available == SelectSeq(pool, ok)
        plan_priority == [premium |-> 1, pro |-> 2, basic |-> 3]
        client_priority == IF client.plan \in DOMAIN plan_priority
                           THEN plan_priority[client.plan] ELSE 3
    IN  IF client_priority > 1 /\ available # << >> THEN Tail(available)
        ELSE available

\* _get_available_leads(client) on instance i, for the client dictionary
\* `client`: the rows of all files that pass the filter, in file order.  The
\* priority of the client's plan is computed and not used.
available_leads(i, client) ==
    LET ok(r) ==
            /\ ~ is_lead_delivered(mem_delivered[i], r.email, now)
            /\ (client.exclusive
                    => ~ is_lead_exclusive_delivered(mem_exclusive[i], r.email))
        available == SelectSeq(pool, ok)
        plan_priority == [premium |-> 1, pro |-> 2, basic |-> 3]
        client_priority == IF client.plan \in DOMAIN plan_priority
                           THEN plan_priority[client.plan] ELSE 3
    IN  available

\* _get_available_leads for the stored client c
get_available_leads(i, c) == available_leads(i, ClientTable[c])

\* _generate_lead_id(client_name, lead_number) on day `day`:
\* "<name, lower case, no spaces>-<YYYYMMDD>-<number, four digits>", kept as
\* its three parts (the names of the model hold no space).
generate_lead_id(client_name, day, lead_number) ==
    << Lower(client_name), day, lead_number >>

\* A per-lead loop that keeps the rows whose personalisation raised.
personalized_leads_unfiltered(available, quota, lead_count, client_name, day) ==
    LET leads_to_deliver == PySlice(available, Min(quota, lead_count))
        lead(k) == [email |-> leads_to_deliver[k].email,
                    valid |-> leads_to_deliver[k].valid,
                    processed_at |-> leads_to_deliver[k].processed_at,
                    lead_id |-> generate_lead_id(client_name, day, k)]
    IN  [k \in 1..Len(leads_to_deliver) |-> lead(k)]

\* Lines 93-140 of process_client_delivery: the batch cut to the quota, then
\* the rows whose personalisation did not raise.
personalized_leads(available, quota, lead_count, client_name, day) ==
    LET leads_to_deliver == PySlice(available, Min(quota, lead_count))
        lead(k) == [email |-> leads_to_deliver[k].email,
                    valid |-> leads_to_deliver[k].valid,
                    processed_at |-> leads_to_deliver[k].processed_at,
                    lead_id |-> generate_lead_id(client_name, day, k)]
        valid(r) == r.valid
    IN  SelectSeq([k \in 1..Len(leads_to_deliver) |-> lead(k)], valid)

\* ----------------------------------------------------------------- threads
Idle == [pc |-> "idle", kind |-> "none", inst |-> "none", client |-> "none",
         snap |-> EmptyDict, todo |-> << >>, batch |-> << >>, effects |-> {},
         count |-> 0, error |-> "none", done |-> {}]

\* The messages of the exceptions process_client_delivery ends with.
NoLeadsAvailable == "No leads available for delivery"
NoLeadsProcessed == "No leads could be processed successfully"
ExportFailed == "OSError"

\* A request is served by the first free worker thread.
FreeWorker(t) ==
    /\ t \in ReqThreads
    /\ th[t].pc = "idle"
    /\ (t = "req2" => th["req1"].pc # "idle")

RunnableClient(c, snap) == ClientTable[c].active /\ snap[c] > 0

RECURSIVE DropNotRunnable(_, _)
DropNotRunnable(todo, snap) ==
    IF todo = << >> THEN << >>
    ELSE IF RunnableClient(Head(todo), snap) THEN todo
    ELSE DropNotRunnable(Tail(todo), snap)

\* The loop `for client in clients` of _daily_processing_job and of
\* run_manual_processing, advanced to the next client it processes.
Continue(r) ==
    LET rest == DropNotRunnable(r.todo, r.snap)
    IN  IF rest # << >>
        THEN [r EXCEPT !.pc = "select", !.client = Head(rest), !.todo = Tail(rest),
                       !.batch = << >>, !.effects = {}, !.error = "none"]
        ELSE IF r.kind = "daily" /\ r.count > 0
        THEN [r EXCEPT !.pc = "save", !.client = "none", !.todo = << >>,
                       !.batch = << >>, !.effects = {}, !.error = "none",
                       !.done = {}]
        ELSE Idle

\* process_client_delivery ends with an exception: `raise` at lines 91, 140 or
\* inside lines 142-152, logged and raised again at lines 202-204.
Raise(r, message) ==
    [r EXCEPT !.pc = "raised", !.error = message, !.batch = << >>, !.effects = {}]

\* A caller that gives up its run at the first failed delivery.
OnFailure_abort(r) == Idle

\* The caller's except clause: the route answers 500, run_manual_processing
\* gives up (one client) or goes on (all clients), the daily job goes on.
OnFailure(r) == IF r.kind \in {"web", "manual_one"} THEN Idle ELSE Continue(r)

\* The quota a caller computes from its own copy of the client.
NewQuota(q, delivered) == Max(0, q - delivered)

\* process_client_delivery returned leads_delivered = Len(r.batch)
OnSuccess(r) ==
    CASE r.kind = "web" -> [r EXCEPT !.pc = "quota", !.effects = {}]
      [] r.kind = "manual_one" -> Idle
      [] r.kind = "manual_all" ->
            Continue([r EXCEPT !.done = @ \cup Range(EmailsOf(r.batch))])
      [] r.kind = "daily" ->
            Continue([r EXCEPT !.snap[r.client] = NewQuota(@, Len(r.batch)),
                               !.count = @ + 1,
                               !.done = @ \cup Range(EmailsOf(r.batch))])

DeliveryRecord(r) ==
    [client |-> r.client, emails |-> EmailsOf(r.batch), day |-> now,
     exclusive |-> ClientTable[r.client].exclusive, via |-> r.kind,
     lead_ids |-> [k \in 1..Len(r.batch) |-> r.batch[k].lead_id]]

\* -------------------------------------------------------------------- Init
Init ==
    /\ now = 0
    /\ ticks = 0
    /\ uploads = 0
    /\ calls = 0
    /\ pool = << >>
    /\ mem_delivered = [i \in Instances |-> EmptyDict]
    /\ mem_exclusive = [i \in Instances |-> EmptyDict]
    /\ file_delivered = EmptyDict
    /\ file_exclusive = EmptyDict
    /\ db_quota = InitialQuota
    /\ file_quota = InitialQuota
    /\ db_delivered = {}
    /\ th = [t \in Threads |-> Idle]
    /\ log = << >>
    /\ is_running = FALSE
    /\ loops = << >>
    /\ jobs = << >>

\* ----------------------------------------------------------------- actions
\* The clock advances: by a day at any moment, by a whole deduplication window
\* only between delivery runs (a run lasts seconds).
TickUpTo(limit) ==
    /\ ticks < limit
    /\ \E d \in TickSteps :
          /\ (d > 1 => \A t \in Threads : th[t].pc = "idle")
          /\ now' = now + d
    /\ ticks' = ticks + 1
    /\ UNCHANGED sched_vars
    /\ UNCHANGED << uploads, calls, pool, mem_delivered, mem_exclusive, file_delivered,
                    file_exclusive, db_quota, file_quota, db_delivered, th, log >>

Tick == TickUpTo(MaxTicks)

\* /upload_leads: process_uploaded_leads on the web application's processor.
\* The rows that remove_duplicates keeps are written to a new
\* processed_leads_<timestamp>.json file; os.listdir returns the files in
\* arbitrary order, so the new file is read before or after the older ones.
UploadInto(files, limit) ==
    /\ uploads < limit
    /\ \E f \in files, first \in BOOLEAN :
          LET new == StoredRows(remove_duplicates(f, mem_delivered["app"], now),
                                uploads + 1)
          IN  pool' = IF first THEN new \o pool ELSE pool \o new
    /\ uploads' = uploads + 1
    /\ UNCHANGED sched_vars
    /\ UNCHANGED << now, ticks, calls, mem_delivered, mem_exclusive, file_delivered,
                    file_exclusive, db_quota, file_quota, db_delivered, th, log >>

UploadLeads == UploadInto(UploadFiles, MaxUploads)

\* /process_delivery/<client_id>: the client row is read from the database
StartWeb(t, c) ==
    /\ FreeWorker(t)
    /\ calls < MaxCalls
    /\ calls' = calls + 1
    /\ th' = [th EXCEPT ![t] = [Idle EXCEPT !.pc = "select", !.kind = "web",
                                            !.inst = "app", !.client = c,
                                            !.snap = (c :> db_quota[c])]]
    /\ UNCHANGED sched_vars
    /\ UNCHANGED << now, ticks, uploads, pool, mem_delivered, mem_exclusive,
                    file_delivered, file_exclusive, db_quota, file_quota,
                    db_delivered, log >>

\* run_manual_processing(client_id): the client is read from clients.json
StartManualOne(t, c) ==
    /\ FreeWorker(t)
    /\ calls < MaxCalls
    /\ calls' = calls + 1
    /\ th' = [th EXCEPT ![t] = [Idle EXCEPT !.pc = "select", !.kind = "manual_one",
                                            !.inst = "sched", !.client = c,
                                            !.snap = file_quota]]
    /\ UNCHANGED sched_vars
    /\ UNCHANGED << now, ticks, uploads, pool, mem_delivered, mem_exclusive,
                    file_delivered, file_exclusive, db_quota, file_quota,
                    db_delivered, log >>

\* run_manual_processing(): every active client with quota left
StartManualAllIn(t, clients) ==
    /\ FreeWorker(t)
    /\ calls < MaxCalls
    /\ calls' = calls + 1
    /\ th' = [th EXCEPT ![t] = Continue([Idle EXCEPT !.kind = "manual_all",
                                                     !.inst = "sched",
                                                     !.snap = file_quota,
                                                     !.todo = clients])]
    /\ UNCHANGED sched_vars
    /\ UNCHANGED << now, ticks, uploads, pool, mem_delivered, mem_exclusive,
                    file_delivered, file_exclusive, db_quota, file_quota,
                    db_delivered, log >>

\* _daily_processing_job, run by the scheduler thread
StartDailyIn(clients) ==
    /\ th["sched"].pc = "idle"
    /\ calls < MaxCalls
    /\ calls' = calls + 1
    /\ th' = [th EXCEPT !["sched"] = Continue([Idle EXCEPT !.kind = "daily",
                                                           !.inst = "sched",
                                                           !.snap = file_quota,
                                                           !.todo = clients])]
    /\ UNCHANGED sched_vars
    /\ UNCHANGED << now, ticks, uploads, pool, mem_delivered, mem_exclusive,
                    file_delivered, file_exclusive, db_quota, file_quota,
                    db_delivered, log >>

StartManualAll(t) == StartManualAllIn(t, ClientOrder)

StartDaily == StartDailyIn(ClientOrder)

\* process_client_delivery, lines 87-140: the leads are chosen
SelectLeads(t) ==
    /\ th[t].pc = "select"
    /\ LET r == th[t]
           available == get_available_leads(r.inst, r.client)
           batch == personalized_leads(available, r.snap[r.client],
                                       ClientTable[r.client].lead_count,
                                       ClientTable[r.client].name, now)
       IN  th' = [th EXCEPT ![t] =
                     IF available = << >> THEN Raise(r, NoLeadsAvailable)
                     ELSE IF batch = << >> THEN Raise(r, NoLeadsProcessed)
                     ELSE [r EXCEPT !.pc = "export", !.batch = batch]]
    /\ UNCHANGED sched_vars
    /\ UNCHANGED << now, ticks, uploads, calls, pool, mem_delivered, mem_exclusive,
                    file_delivered, file_exclusive, db_quota, file_quota,
                    db_delivered, log >>

\* lines 142-188: the delivery folder and the CSV file (an OS error raises and
\* ends the call), then Drive upload, client e-mail and Notion log (each may
\* fail and is only logged)
SideEffects(t) ==
    /\ th[t].pc = "export"
    /\ \/ th' = [th EXCEPT ![t] = Raise(@, ExportFailed)]
       \/ \E done \in SUBSET {"drive", "email", "notion"} :
             th' = [th EXCEPT ![t] = [@ EXCEPT !.pc = "mark",
                                               !.effects = {"csv"} \cup done]]
    /\ UNCHANGED sched_vars
    /\ UNCHANGED << now, ticks, uploads, calls, pool, mem_delivered, mem_exclusive,
                    file_delivered, file_exclusive, db_quota, file_quota,
                    db_delivered, log >>

\* The exception of process_client_delivery reaches the caller's except clause
\* (app.py 201-203, scheduler.py 109-111, 279-281 and 285-287).
HandleException(t) ==
    /\ th[t].pc = "raised"
    /\ th' = [th EXCEPT ![t] = OnFailure(@)]
    /\ UNCHANGED sched_vars
    /\ UNCHANGED << now, ticks, uploads, calls, pool, mem_delivered, mem_exclusive,
                    file_delivered, file_exclusive, db_quota, file_quota,
                    db_delivered, log >>

\* lines 190-200: mark_leads_as_delivered(emails), called without `exclusive`,
\* then the result is returned to the caller
MarkDelivered(t) ==
    /\ th[t].pc = "mark"
    /\ LET r == th[t]
           m == mark_leads_as_delivered(mem_delivered[r.inst], mem_exclusive[r.inst],
                                        EmailsOf(r.batch), FALSE, now)
       IN  /\ mem_delivered' = [mem_delivered EXCEPT ![r.inst] = m[1]]
           /\ mem_exclusive' = [mem_exclusive EXCEPT ![r.inst] = m[2]]
           /\ file_delivered' = m[1]
           /\ UNCHANGED file_exclusive
           /\ log' = Append(log, DeliveryRecord(r))
           /\ th' = [th EXCEPT ![t] = OnSuccess(r)]
    /\ UNCHANGED sched_vars
    /\ UNCHANGED << now, ticks, uploads, calls, pool, db_quota, file_quota, db_delivered >>

\* app.py lines 191-193: db.update_client_quota; a database error leaves the
\* row as it was
UpdateQuota(t) ==
    /\ th[t].pc = "quota"
    /\ LET r == th[t] IN
       \E ok \in BOOLEAN :
          db_quota' = IF ok
                      THEN [db_quota EXCEPT ![r.client] =
                                NewQuota(r.snap[r.client], Len(r.batch))]
                      ELSE db_quota
    /\ th' = [th EXCEPT ![t] = Idle]
    /\ UNCHANGED sched_vars
    /\ UNCHANGED << now, ticks, uploads, calls, pool, mem_delivered, mem_exclusive,
                    file_delivered, file_exclusive, file_quota, db_delivered, log >>

\* scheduler.py lines 113-116: the job's copy of the clients is written back
SaveClients ==
    /\ th["sched"].pc = "save"
    /\ file_quota' = th["sched"].snap
    /\ th' = [th EXCEPT !["sched"] = Idle]
    /\ UNCHANGED sched_vars
    /\ UNCHANGED << now, ticks, uploads, calls, pool, mem_delivered, mem_exclusive,
                    file_delivered, file_exclusive, db_quota, db_delivered, log >>

\* clean_old_records on instance i
CleanOldRecords(i) ==
    /\ LET d == KeepNewer(mem_delivered[i], now,
                          DEDUPLICATION_WINDOW_DAYS * CLEANUP_WINDOW_FACTOR)
           x == KeepNewer(mem_exclusive[i], now, EXCLUSIVE_RETENTION_DAYS)
       IN  /\ mem_delivered' = [mem_delivered EXCEPT ![i] = d]
           /\ mem_exclusive' = [mem_exclusive EXCEPT ![i] = x]
           /\ file_delivered' = d
           /\ file_exclusive' = x
    /\ UNCHANGED sched_vars
    /\ UNCHANGED << now, ticks, uploads, calls, pool, db_quota, file_quota,
                    db_delivered, th, log >>

Next ==
    \/ Tick
    \/ UploadLeads
    \/ \E t \in ReqThreads, c \in Clients : StartWeb(t, c)
    \/ \E t \in ReqThreads, c \in Clients : StartManualOne(t, c)
    \/ \E t \in ReqThreads : StartManualAll(t)
    \/ StartDaily
    \/ \E t \in Threads : SelectLeads(t)
    \/ \E t \in Threads : SideEffects(t)
    \/ \E t \in Threads : HandleException(t)
    \/ \E t \in Threads : MarkDelivered(t)
    \/ \E t \in Threads : UpdateQuota(t)
    \/ SaveClients
    \/ \E i \in Instances : CleanOldRecords(i)

Spec == Init /\ [][Next]_vars

\* ------------------------- uploads and deliveries of one web worker, in turn
UploadPool == UploadInto(PoolFiles, MaxPoolUploads)

NextPool ==
    \/ UploadPool
    \/ \E c \in Clients : StartWeb("req1", c)
    \/ SelectLeads("req1")
    \/ SideEffects("req1")
    \/ HandleException("req1")
    \/ MarkDelivered("req1")
    \/ UpdateQuota("req1")

SpecPool == Init /\ [][NextPool]_vars

\* ------------- runs over all clients on the scheduler's LeadProcessor: the
\* daily job on the scheduler thread, run_manual_processing() on a worker
RunThreads == {"sched", "req1"}

NextRun ==
    \/ UploadPool
    \/ StartDailyIn(RunOrder)
    \/ StartManualAllIn("req1", RunOrder)
    \/ \E t \in RunThreads : SelectLeads(t)
    \/ \E t \in RunThreads : SideEffects(t)
    \/ \E t \in RunThreads : HandleException(t)
    \/ \E t \in RunThreads : MarkDelivered(t)
    \/ SaveClients

SpecRun == Init /\ [][NextRun]_vars

\* ------------------------------------- the record operations, called directly
\* db.mark_lead_delivered(email, fingerprint, exclusive)
RecordDbOf(emails, companies) ==
    /\ \E e \in emails, company \in companies, x \in BOOLEAN :
          db_delivered' = mark_lead_delivered(db_delivered, e,
                                              get_lead_fingerprint(e, company), x, now)
    /\ UNCHANGED sched_vars
    /\ UNCHANGED << now, ticks, uploads, calls, pool, mem_delivered, mem_exclusive,
                    file_delivered, file_exclusive, db_quota, file_quota, th, log >>

RecordDb == RecordDbOf(RecordEmails, Companies)

\* DeduplicationService.mark_leads_as_delivered([email], exclusive) on the
\* instance i, with both saves
RecordIndex(i) ==
    /\ \E e \in RecordEmails, x \in BOOLEAN :
          LET m == mark_leads_as_delivered(mem_delivered[i], mem_exclusive[i],
                                           << e >>, x, now)
          IN  /\ mem_delivered' = [mem_delivered EXCEPT ![i] = m[1]]
              /\ mem_exclusive' = [mem_exclusive EXCEPT ![i] = m[2]]
              /\ file_delivered' = m[1]
              /\ file_exclusive' = IF x THEN m[2] ELSE file_exclusive
    /\ UNCHANGED sched_vars
    /\ UNCHANGED << now, ticks, uploads, calls, pool, db_quota, file_quota,
                    db_delivered, th, log >>

NextRecord ==
    \/ Tick
    \/ RecordDb
    \/ RecordIndex("app")

SpecRecord == Init /\ [][NextRecord]_vars

\* ------------------------- recording and cleaning on one DeduplicationService
TickClean == TickUpTo(MaxCleanTicks)

NextClean ==
    \/ TickClean
    \/ RecordIndex("app")
    \/ CleanOldRecords("app")

SpecClean == Init /\ [][NextClean]_vars

\* ------------------------------ the delivered_leads table, one address in it
RecordTable == RecordDbOf(TableEmails, TableCompanies)

NextTable ==
    \/ Tick
    \/ RecordTable

SpecTable == Init /\ [][NextTable]_vars

\* ------------------------------------------- SchedulerService and `schedule`
\* start(): nothing when is_running, else the flag is set and a new thread
\* enters _run_scheduler, about to test the flag.
start ==
    /\ Len(loops) < MaxStarts
    /\ IF is_running
       THEN UNCHANGED << is_running, loops >>
       ELSE /\ is_running' = TRUE
            /\ loops' = Append(loops, [pc |-> "test", seen |-> 0])
    /\ UNCHANGED jobs
    /\ UNCHANGED delivery_vars

\* stop(): the flag is reset and schedule.clear() removes every job
stop ==
    /\ is_running' = FALSE
    /\ jobs' = << >>
    /\ UNCHANGED loops
    /\ UNCHANGED delivery_vars

\* _run_scheduler, `while self.is_running`: thread k reads the flag; when set
\* it runs the pending jobs and sleeps, else it returns.  `seen` is the number
\* of threads start() had created when the flag was read.
LoopTest(k) ==
    /\ loops[k].pc = "test"
    /\ loops' = [loops EXCEPT ![k] =
                    IF is_running THEN [pc |-> "sleep", seen |-> Len(loops)]
                    ELSE [pc |-> "done", seen |-> Len(loops)]]
    /\ UNCHANGED << is_running, jobs >>
    /\ UNCHANGED delivery_vars

\* time.sleep(60) of thread k is over
LoopWake(k) ==
    /\ loops[k].pc = "sleep"
    /\ loops' = [loops EXCEPT ![k].pc = "test"]
    /\ UNCHANGED << is_running, jobs >>
    /\ UNCHANGED delivery_vars

\* schedule_daily_processing: schedule.clear(), then the daily job is added
schedule_daily_processing ==
    /\ jobs' = << "daily_processing" >>
    /\ UNCHANGED << is_running, loops >>
    /\ UNCHANGED delivery_vars

\* schedule_weekly_commission_reminders: one more job
schedule_weekly_commission_reminders ==
    /\ Len(jobs) < MaxJobs
    /\ jobs' = Append(jobs, "commission_reminder")
    /\ UNCHANGED << is_running, loops >>
    /\ UNCHANGED delivery_vars

\* schedule_quota_monitoring: one more job
schedule_quota_monitoring ==
    /\ Len(jobs) < MaxJobs
    /\ jobs' = Append(jobs, "quota_monitoring")
    /\ UNCHANGED << is_running, loops >>
    /\ UNCHANGED delivery_vars

\* stop_scheduling: schedule.clear()
stop_scheduling ==
    /\ jobs' = << >>
    /\ UNCHANGED << is_running, loops >>
    /\ UNCHANGED delivery_vars

NextSched ==
    \/ start
    \/ stop
    \/ \E k \in 1..Len(loops) : LoopTest(k)
    \/ \E k \in 1..Len(loops) : LoopWake(k)
    \/ schedule_daily_processing
    \/ schedule_weekly_commission_reminders
    \/ schedule_quota_monitoring
    \/ stop_scheduling

SpecSched == Init /\ [][NextSched]_vars

\* ------------------------------------------------------------ observations
AllIdle == \A t \in Threads : th[t].pc = "idle"

Overlap(r1, r2) == Range(r1.emails) \cap Range(r2.emails) # {}

\* The number of leads the deliveries logged so far gave client c.
RECURSIVE DeliveredCount(_, _)
DeliveredCount(records, c) ==
    IF records = << >> THEN 0
    ELSE (IF Head(records).client = c THEN Len(Head(records).emails) ELSE 0)
         + DeliveredCount(Tail(records), c)

\* What the two stores of client c's remaining_quota were reduced by.
QuotaSpent(c) == (InitialQuota[c] - db_quota[c]) + (InitialQuota[c] - file_quota[c])

\* The stored remaining_quota a run of thread record r works on.
StoredQuota(r) == IF r.kind = "web" THEN db_quota[r.client] ELSE file_quota[r.client]

\* The identities (lower-case emails) of a sequence of rows.
Identities(rows) == { Lower(rows[k].email) : k \in 1..Len(rows) }

AvailableEmails(i, c) == Range(EmailsOf(get_available_leads(i, c)))

\* The deliveries of email e, as indices of the log.
DeliveriesOf(e) == { k \in 1..Len(log) : e \in Range(log[k].emails) }

\* ------------------------------------------------------------------ claims

\* C1: global at-most-once.  No lead identity is delivered by two different
\* process_client_delivery calls on the same pool: two deliveries that share
\* an email lie at least a deduplication window apart.
C1_GlobalAtMostOnce ==
    \A j \in 1..Len(log) : \A k \in 1..Len(log) :
        (j < k /\ Overlap(log[j], log[k]))
            => log[k].day - log[j].day >= DEDUPLICATION_WINDOW_DAYS

\* C2: a lead delivered to an exclusive client is never delivered to a
\* different client afterwards, whatever time has passed.
C2_ExclusiveNeverResold ==
    \A j \in 1..Len(log) : \A k \in 1..Len(log) :
        (j < k /\ log[j].exclusive /\ Overlap(log[j], log[k]))
            => log[k].client = log[j].client

\* C3: a lead last delivered, non-exclusively, at day T is available to no
\* client before T + window_days and, while it is in the pool, available to
\* every client after T + window_days.
C3_WindowEligibility ==
    \A e \in Emails :
        DeliveriesOf(e) # {} =>
            LET last == log[CHOOSE k \in DeliveriesOf(e) : \A m \in DeliveriesOf(e) : m <= k]
            IN  ~ last.exclusive =>
                    \A i \in Instances, c \in Clients :
                        /\ now < last.day + DEDUPLICATION_WINDOW_DAYS
                              => e \notin AvailableEmails(i, c)
                        /\ (now > last.day + DEDUPLICATION_WINDOW_DAYS
                                /\ e \in Range(EmailsOf(pool)))
                              => e \in AvailableEmails(i, c)

\* C4: once no delivery run is in flight, a client's remaining quota is its
\* initial quota minus the number of leads delivered to it, whichever entry
\* point made the deliveries.
C4_QuotaAccounting ==
    AllIdle => \A c \in Clients : QuotaSpent(c) = DeliveredCount(log, c)

\* C5: remaining_quota is never negative, and no delivery is committed whose
\* batch is larger than the remaining quota stored at the time of the commit
\* (such a commit is rejected, not clamped to 0).
C5_NoOverdraw ==
    [][ /\ \A c \in Clients : db_quota'[c] >= 0 /\ file_quota'[c] >= 0
        /\ \A t \in Threads :
              (th[t].pc = "mark" /\ th'[t].pc # "mark")
                  => Len(th[t].batch) <= StoredQuota(th[t]) ]_vars

\* C6: the commit is atomic.  In every reachable state the leads marked
\* delivered for a client and the reduction of its quota agree: no state has
\* leads marked with the quota not reduced, nor the reverse.
C6_AtomicCommit ==
    \A c \in Clients : DeliveredCount(log, c) = QuotaSpent(c)

\* C7: external side effects (CSV export, Drive upload, notification e-mail,
\* Notion log) happen only after the allocation is committed: whenever a call
\* has emitted one, its leads are marked delivered in the index it works on.
C7_EffectsAfterCommit ==
    \A t \in Threads :
        th[t].effects # {} =>
            \A e \in Range(EmailsOf(th[t].batch)) :
                is_lead_delivered(mem_delivered[th[t].inst], e, now)

\* C9: a single delivery for a client with remaining quota q and batch cap m,
\* from a pool with n eligible leads, delivers min(q, m, n) leads and reduces
\* the quota by the delivered count.  Stated for the first delivery run on
\* a pool of well-formed rows, where every pool row is eligible.
C9_DeliversMinAndSpends ==
    (AllIdle /\ uploads = 1 /\ calls = 1 /\ Len(log) = 1
        /\ \A k \in 1..Len(pool) : pool[k].valid)
        => LET c == log[1].client
               n == Len(pool)
               size == Len(log[1].emails)
           IN  /\ size = Min(Min(InitialQuota[c], ClientTable[c].lead_count), n)
               /\ (IF log[1].via = "web" THEN db_quota[c] ELSE file_quota[c])
                      = InitialQuota[c] - size

\* C10: a lead delivered to an exclusive client is available to no other
\* client, exclusive or not, however long ago the delivery was.
C10_ExclusiveLockBlocks ==
    \A k \in 1..Len(log) :
        log[k].exclusive =>
            \A i \in Instances : \A c \in Clients \ {log[k].client} :
                Range(log[k].emails) \cap AvailableEmails(i, c) = {}

\* C8 as stated, for both record operations: recording a key that the index
\* already holds, with the arguments of the first call, leaves the index
\* exactly as it was, stored timestamp and exclusive flag included.
C8_RecordIdempotentBoth ==
    \A e \in RecordEmails, company \in Companies :
        LET fp == get_lead_fingerprint(e, company)
            mine == mem_delivered["app"]
            excl == mem_exclusive["app"]
        IN  /\ \A row \in db_delivered :
                  (row.email = e /\ row.fingerprint = fp)
                      => mark_lead_delivered(db_delivered, e, fp, row.exclusive, now)
                             = db_delivered
            /\ e \in DOMAIN mine
                  => mark_leads_as_delivered(mine, excl, << e >>, e \in DOMAIN excl, now)
                         = << mine, excl >>

\* C8, amended: DatabaseManager.mark_lead_delivered is idempotent on the
\* (email, fingerprint) key, whatever exclusive flag and time the second call
\* carries; DeduplicationService.mark_leads_as_delivered is keyed by the email
\* alone, is idempotent at one clock time, and at a later time replaces the
\* stored timestamp of the email by the later time and nothing else.
C8_RecordIdempotent ==
    \A e \in RecordEmails, company \in Companies, x \in BOOLEAN, y \in BOOLEAN,
       d \in {0} \cup TickSteps :
        LET fp == get_lead_fingerprint(e, company)
            db1 == mark_lead_delivered(db_delivered, e, fp, x, now)
            ix1 == mark_leads_as_delivered(mem_delivered["app"], mem_exclusive["app"],
                                           << e >>, x, now)
            ix2 == mark_leads_as_delivered(ix1[1], ix1[2], << e >>, x, now + d)
        IN  /\ HasKey(db1, e, fp)
            /\ mark_lead_delivered(db1, e, fp, y, now + d) = db1
            /\ DOMAIN ix2[1] = DOMAIN ix1[1] /\ DOMAIN ix2[2] = DOMAIN ix1[2]
            /\ ix2[1][e] = now + d
            /\ \A o \in DOMAIN ix1[1] \ {e} : ix2[1][o] = ix1[1][o]
            /\ \A o \in DOMAIN ix1[2] \ {e} : ix2[2][o] = ix1[2][o]
            /\ d = 0 => ix2 = ix1

\* C8 witness: both indexes hold an entry recorded on an earlier day under a
\* key that differs from another recorded key only in letter case.
C8_Witness ==
    /\ \E row \in db_delivered : row.delivered_at < now /\ row.exclusive
    /\ \E r1 \in db_delivered : \E r2 \in db_delivered :
          r1.email # r2.email /\ r1.fingerprint = r2.fingerprint
    /\ \E e \in DOMAIN mem_delivered["app"] : mem_delivered["app"][e] < now
    /\ DOMAIN mem_exclusive["app"] # {}

\* C11: when the cap min(remaining_quota, batch size) of a delivery call is
\* not positive, the call returns an empty allocation as an ordinary result:
\* it does not end with an exception.
C11_QuotaExhaustedIsResult ==
    \A t \in Threads :
        (th[t].client # "none"
            /\ Min(th[t].snap[th[t].client], ClientTable[th[t].client].lead_count) <= 0)
            => th[t].pc # "raised"

\* C12: a delivery call that finds no lead to deliver returns an empty
\* allocation as an ordinary result; no exception tells "nothing to deliver".
C12_NoEligibleLeadsIsResult ==
    \A t \in Threads : th[t].pc = "raised" => th[t].error # NoLeadsAvailable

\* C13: after any sequence of uploads the pool holds no two leads with the
\* same identity, also when the duplicates arrive in separate uploads.
C13_PoolIdentityUnique ==
    \A j \in 1..Len(pool) : \A k \in 1..Len(pool) :
        j # k => pool[j].email # pool[k].email

\* C14: after a successful delivery to an exclusive client, and for as long as
\* exclusive entries are retained, is_lead_exclusive_delivered is true for
\* each delivered email (on one LeadProcessor at least).
C14_ExclusiveEntryOnCommit ==
    \A k \in 1..Len(log) :
        (log[k].exclusive /\ now - log[k].day < EXCLUSIVE_RETENTION_DAYS)
            => \A e \in Range(log[k].emails) :
                  \E i \in Instances : is_lead_exclusive_delivered(mem_exclusive[i], e)

\* C15: in every reachable state of the dedup index at most one entry of an
\* email carries exclusive = true, and recording a non-exclusive delivery
\* creates no entry for an email that already has an exclusive entry.
C15_OneExclusiveEntry ==
    /\ \A r1 \in db_delivered : \A r2 \in db_delivered :
          (r1.email = r2.email /\ r1.exclusive /\ r2.exclusive) => r1 = r2
    /\ \A e \in TableEmails, company \in TableCompanies :
          (\E row \in db_delivered : row.email = e /\ row.exclusive)
              => mark_lead_delivered(db_delivered, e, get_lead_fingerprint(e, company),
                                     FALSE, now) = db_delivered

\* C16: the batch is the oldest-first prefix of the eligible leads: whenever a
\* call chooses a lead, every well-formed eligible lead that was ingested
\* earlier is in the chosen batch too.
C16_OldestFirst ==
    [][ \A t \in Threads :
           (th[t].pc = "select" /\ th'[t].pc = "export")
               => LET eligible == get_available_leads(th[t].inst, th[t].client)
                      batch == th'[t].batch
                  IN  \A k \in 1..Len(batch) : \A j \in 1..Len(eligible) :
                         (eligible[j].valid
                             /\ eligible[j].processed_at < batch[k].processed_at)
                             => Lower(eligible[j].email) \in Identities(batch) ]_vars

\* C17: two emails that differ only in letter case are one identity: an upload
\* keeps one row of them, and while one was delivered within the window the
\* other is available to no client.
C17_CaseInsensitiveIdentity ==
    /\ \A j \in 1..Len(pool) : \A k \in 1..Len(pool) :
          (j # k /\ pool[j].processed_at = pool[k].processed_at)
              => Lower(pool[j].email) # Lower(pool[k].email)
    /\ \A i \in Instances, c \in Clients : \A k \in 1..Len(pool) :
          (\E e \in DOMAIN mem_delivered[i] :
                /\ Lower(e) = Lower(pool[k].email)
                /\ is_lead_delivered(mem_delivered[i], e, now))
              => pool[k].email \notin AvailableEmails(i, c)

\* Dictionary d2 is dictionary d without its entries older than `days` days
\* at time t (an entry exactly `days` days old may be kept or removed).
PurgedOlderThan(d, d2, t, days) ==
    /\ DOMAIN d2 \subseteq DOMAIN d
    /\ \A e \in DOMAIN d :
          /\ t - d[e] > days => e \notin DOMAIN d2
          /\ t - d[e] < days => (e \in DOMAIN d2 /\ d2[e] = d[e])

\* The entries of dictionary d that are less than `days` days old at time t.
YoungerThan(d, t, days) ==
    LET kept == { e \in DOMAIN d : t - d[e] < days } IN [e \in kept |-> d[e]]

\* C18 as stated: cleaning removes exactly the delivered entries older than
\* the deduplication window and the exclusive entries older than 90 days, and
\* keeps every other entry unchanged.
C18_PurgeAtWindow ==
    [][ \A i \in Instances :
           CleanOldRecords(i)
               => /\ PurgedOlderThan(mem_delivered[i], mem_delivered'[i], now,
                                     DEDUPLICATION_WINDOW_DAYS)
                  /\ PurgedOlderThan(mem_exclusive[i], mem_exclusive'[i], now,
                                     EXCLUSIVE_RETENTION_DAYS) ]_vars

\* C18, amended: clean_old_records removes from the instance's delivered_leads
\* exactly the entries that are at least twice the deduplication window (60
\* days) old and from its exclusive_leads exactly the entries that are at
\* least 90 days old, keeps every other entry with its timestamp, and writes
\* both dictionaries to their files.
C18_PurgeAtTwiceWindow ==
    [][ \A i \in Instances :
           CleanOldRecords(i)
               => /\ mem_delivered'[i]
                        = YoungerThan(mem_delivered[i], now, 2 * DEDUPLICATION_WINDOW_DAYS)
                  /\ mem_exclusive'[i]
                        = YoungerThan(mem_exclusive[i], now, EXCLUSIVE_RETENTION_DAYS)
                  /\ file_delivered' = mem_delivered'[i]
                  /\ file_exclusive' = mem_exclusive'[i] ]_vars

\* C18 witness: a cleaning has removed the delivered entry of an email whose
\* exclusive entry it kept, and the delivered index still holds an entry that
\* is older than the deduplication window.
C18_Witness ==
    /\ \E e \in DOMAIN mem_exclusive["app"] : e \notin DOMAIN mem_delivered["app"]
    /\ \E o \in DOMAIN mem_delivered["app"] :
          now - mem_delivered["app"][o] > DEDUPLICATION_WINDOW_DAYS

\* C19: a lead that, at commit time, was delivered within the window to an
\* exclusive client other than the caller's is dropped from the batch: no
\* call marks and returns such a lead.
C19_ConflictingLeadDropped ==
    [][ \A t \in Threads :
           (th[t].pc = "mark" /\ th'[t].pc # "mark")
               => \A k \in 1..Len(log) :
                     (/\ log[k].exclusive
                      /\ log[k].client # th[t].client
                      /\ now - log[k].day < DEDUPLICATION_WINDOW_DAYS)
                         => Range(log[k].emails) \cap Range(EmailsOf(th[t].batch)) = {} ]_vars

OtherJobs(list) ==
    LET other(j) == j # "daily_processing" IN SelectSeq(list, other)

\* C23: at most one thread runs the scheduler loop: no thread created by an
\* earlier start() goes on looping (finds is_running set) after a later
\* start() has created another thread.
C23_OneSchedulerLoop ==
    \A k1 \in 1..Len(loops) : \A k2 \in 1..Len(loops) :
        (k1 < k2 /\ loops[k1].pc = "sleep") => loops[k1].seen < k2

\* C24: schedule_daily_processing leaves exactly one daily processing job
\* registered and leaves the commission-reminder and quota-monitoring jobs
\* registered before the call as they were.
C24_DailyScheduleFrame ==
    [][ schedule_daily_processing
           => /\ Cardinality({ k \in 1..Len(jobs') : jobs'[k] = "daily_processing" }) = 1
              /\ OtherJobs(jobs') = OtherJobs(jobs) ]_vars

\* C21: within one run over the clients, the clients are processed in
\* descending plan priority: while a client is being processed, no client
\* still to be processed in the run has a plan of higher priority.
C21_PriorityOrder ==
    \A t \in Threads :
        (th[t].kind \in {"daily", "manual_all"} /\ th[t].client # "none")
            => \A k \in 1..Len(th[t].todo) :
                  RunnableClient(th[t].todo[k], th[t].snap)
                      => PlanPriority[ClientTable[th[t].todo[k]].plan]
                            >= PlanPriority[ClientTable[th[t].client].plan]

\* C22: no save of mark_leads_as_delivered by one DeduplicationService erases
\* an entry of the persisted index: every email in delivered_leads.json before
\* a call marks its batch is in the file afterwards.
C22_SaveKeepsEntries ==
    [][ \A t \in Threads :
           (th[t].pc = "mark" /\ th'[t].pc # "mark")
               => DOMAIN file_delivered \subseteq DOMAIN file_delivered' ]_vars

\* C25: the list of leads one process_client_delivery call delivers holds each
\* email at most once.
C25_NoDuplicateInBatch ==
    \A k \in 1..Len(log) :
        \A m \in 1..Len(log[k].emails) : \A n \in 1..Len(log[k].emails) :
            m # n => log[k].emails[m] # log[k].emails[n]

\* C26: within one run over all clients (the daily job or
\* run_manual_processing()) on the scheduler's LeadProcessor, an email that
\* was delivered to one client is in no batch chosen for a client processed
\* later in the same run.
C26_NoRedeliveryInRun ==
    \A t \in Threads :
        (th[t].kind \in {"daily", "manual_all"} /\ th[t].pc \in {"export", "mark"})
            => Range(EmailsOf(th[t].batch)) \cap th[t].done = {}

\* C26 witness: a run that has delivered leads to one client is about to mark
\* the batch of a later client, while the pool holds a delivered email twice.
C26_Witness ==
    \E t \in Threads :
        /\ th[t].kind \in {"daily", "manual_all"}
        /\ th[t].pc = "mark"
        /\ th[t].done # {}
        /\ th[t].batch # << >>
        /\ \E j \in 1..Len(pool) : \E k \in 1..Len(pool) :
              j # k /\ pool[j].email = pool[k].email /\ pool[j].email \in th[t].done

\* C27: the emails a process_client_delivery call marks in the dedup index
\* are the emails of the batch it reports; a lead whose processing failed is
\* neither reported nor marked, and stays available if it was.
C27_MarkedEqualsReported ==
    [][ \A t \in Threads :
           (th[t].pc = "mark" /\ th'[t].pc # "mark")
               => LET r == th[t]
                      old == mem_delivered[r.inst]
                      new == mem_delivered'[r.inst]
                      reported == Range(log'[Len(log')].emails)
                      marked == { e \in DOMAIN new : e \notin DOMAIN old \/ new[e] # old[e] }
                  IN  /\ Len(log') = Len(log) + 1
                      /\ reported = Range(EmailsOf(r.batch))
                      /\ marked \subseteq reported
                      /\ \A e \in reported : e \in DOMAIN new /\ new[e] = now
                      /\ \A e \in DOMAIN old \ reported : e \in DOMAIN new
                      /\ \A k \in 1..Len(r.batch) : r.batch[k].valid
                      /\ \A k \in 1..Len(pool) : \A c \in Clients :
                            (/\ ~ pool[k].valid
                             /\ pool[k].email \notin reported
                             /\ pool[k].email \in AvailableEmails(r.inst, c))
                                => pool[k].email \in AvailableEmails(r.inst, c)' ]_vars

\* C27 witness: the first delivery reported one lead and skipped the second
\* row of the pool, which is malformed, unmarked and still available.
C27_Witness ==
    /\ Len(log) >= 1
    /\ Len(log[1].emails) = 1
    /\ Len(pool) >= 2
    /\ ~ pool[2].valid
    /\ pool[2].email \notin DOMAIN mem_delivered["app"]
    /\ \A c \in Clients : pool[2].email \in AvailableEmails("app", c)

\* The positions in the clients still to be processed by run r of those the
\* loop will attempt: active, with remaining quota.
Attempted(r) ==
    { k \in 1..Len(r.todo) :
        ClientTable[r.todo[k]].active /\ r.snap[r.todo[k]] > 0 }

\* C28: in the daily job, a delivery that fails changes no quota and does not
\* end the run: the next active client with remaining quota is attempted, with
\* the job's quotas and its count of processed clients as they were; the
\* job's copy of a quota changes only for the client a delivery of at least
\* one lead was just made to, and the stored quota of a client is reduced by
\* the job only if the daily job delivered to it.
C28_DailyFailureIsolated ==
    [][ LET r == th["sched"]
            q == th'["sched"]
        IN  /\ (r.kind = "daily" /\ r.pc = "raised" /\ q.pc # "raised")
                   => /\ db_quota' = db_quota /\ file_quota' = file_quota
                      /\ IF Attempted(r) # {}
                         THEN LET k == CHOOSE k \in Attempted(r) :
                                          \A m \in Attempted(r) : k <= m
                              IN  /\ q.pc = "select"
                                  /\ q.client = r.todo[k]
                                  /\ q.todo = SubSeq(r.todo, k + 1, Len(r.todo))
                                  /\ q.snap = r.snap
                                  /\ q.count = r.count
                         ELSE q.pc \in {"save", "idle"}
            /\ (r.kind = "daily" /\ r.pc = "mark" /\ q.pc # "mark")
                   => \A c \in Clients :
                         q.snap[c] # r.snap[c]
                             => (c = r.client /\ Len(r.batch) >= 1
                                   /\ q.snap[c] = Max(0, r.snap[c] - Len(r.batch)))
            /\ (r.kind = "daily" /\ r.pc = "save" /\ q.pc # "save")
                   => \A c \in Clients :
                         /\ file_quota'[c] <= file_quota[c]
                         /\ file_quota'[c] < file_quota[c]
                               => \E k \in 1..Len(log) :
                                     /\ log[k].client = c
                                     /\ log[k].via = "daily"
                                     /\ Len(log[k].emails) >= 1 ]_vars

\* C28 witness: a daily job whose delivery to its first client failed has
\* delivered to its second client and saved: only the second client's stored
\* quota is reduced.
C28_Witness ==
    /\ th["sched"].pc = "idle"
    /\ pool # << >>
    /\ file_quota[RunOrder[1]] = InitialQuota[RunOrder[1]]
    /\ file_quota[RunOrder[2]] < InitialQuota[RunOrder[2]]
    /\ \A k \in 1..Len(log) : log[k].client # RunOrder[1]

\* C29: no two delivered leads, in one batch or in two deliveries, share a
\* lead_id.
C29_LeadIdUnique ==
    \A j \in 1..Len(log) : \A k \in 1..Len(log) :
        \A m \in 1..Len(log[j].lead_ids) : \A n \in 1..Len(log[k].lead_ids) :
            (j # k \/ m # n) => log[j].lead_ids[m] # log[k].lead_ids[n]

\* C30: clean_old_records changes the answer of is_lead_delivered for no email
\* and no instance: a lead that is within the deduplication window just before
\* a cleanup is still within it just after, and the other way round.
C30_CleanupKeepsAnswers ==
    [][ \A i \in Instances :
           CleanOldRecords(i)
               => \A j \in Instances : \A e \in RecordEmails :
                     is_lead_delivered(mem_delivered'[j], e, now')
                        = is_lead_delivered(mem_delivered[j], e, now) ]_vars

\* C30 witness: a cleaning has removed a delivered entry (its exclusive entry
\* is still there) while another email is within the deduplication window, in
\* the dictionary and in the file the cleaning wrote.
C30_Witness ==
    /\ \E e \in DOMAIN mem_exclusive["app"] : e \notin DOMAIN mem_delivered["app"]
    /\ \E o \in RecordEmails : is_lead_delivered(mem_delivered["app"], o, now)
    /\ file_delivered = mem_delivered["app"]

====
